---------------------------- MODULE Spec2Model ----------------------------
(***************************************************************************)
(* Model of the CopilotCodeReview pipeline task (index.ts) and of the      *)
(* PowerShell scripts it runs.  A run is one execution of run(): preflight,*)
(* author filter, input resolution, Copilot CLI provisioning, the two      *)
(* context-fetch scripts, prompt assembly and the review subprocess raced  *)
(* against a timer.                                                        *)
(*                                                                         *)
(* Text that the code inspects character by character (the authors list,   *)
(* the requester email, the prompt) is a sequence of one-character         *)
(* strings; text that is only tested for presence is a string, "" when     *)
(* absent.                                                                 *)
(***************************************************************************)
EXTENDS Integers, Sequences, FiniteSets, TLC

VARIABLES
    inputs,      \* task inputs (tl.getInput), fixed for the run
    variables,   \* pipeline variables (tl.getVariable), fixed for the run
    host,        \* the agent: platform, file system, subprocess and API behaviour
    pc,          \* position of run()
    results,     \* the tl.setResult calls made so far, in order
    resolved,    \* the configuration resolved by run(), or Unresolved
    procEnv,     \* process.env entries written by run()
    spawned,     \* subprocesses started so far, in order
    scriptArgs,  \* the arguments of each context-fetch script run, in order
    apiCalls,    \* host API requests made by the scripts, in order
    files,       \* files written to the working directory by this run
    steps,       \* pipeline stages completed so far, in order
    review,      \* the review subprocess, its timer and its promise
    reads,       \* names of the task inputs and pipeline variables read so far
    comments     \* runs of Add-AzureDevOpsPRComment.ps1 made by the review CLI

vars == <<inputs, variables, host, pc, results, resolved, procEnv, spawned, scriptArgs,
          apiCalls, files, steps, review, reads, comments>>

envVars == <<inputs, variables, host>>

-----------------------------------------------------------------------------
(* Bounds of the model. *)

MaxAuthorsLen == 3
MaxEmailLen == 1
MaxPromptLen == 2
MaxIterationId == 3
MaxThreadId == 1
MaxToolCalls == 1

-----------------------------------------------------------------------------
(* Text helpers: what the JavaScript string methods used by run() do. *)

RECURSIVE StrsUpTo(_, _)
StrsUpTo(alphabet, n) ==
    IF n = 0 THEN {<<>>}
    ELSE LET shorter == StrsUpTo(alphabet, n - 1)
         IN  shorter \cup {Append(s, c) : s \in shorter, c \in alphabet}

LowerChar(c) ==
    CASE c = "A" -> "a"
      [] c = "B" -> "b"
      [] OTHER -> c

\* String.prototype.toLowerCase
toLowerCase(s) == [i \in 1..Len(s) |-> LowerChar(s[i])]

IsSpace(c) == c = " "

RECURSIVE TrimStart(_)
TrimStart(s) ==
    IF s # <<>> /\ IsSpace(Head(s)) THEN TrimStart(Tail(s)) ELSE s

RECURSIVE TrimEnd(_)
TrimEnd(s) ==
    IF s # <<>> /\ IsSpace(s[Len(s)]) THEN TrimEnd(SubSeq(s, 1, Len(s) - 1)) ELSE s

\* String.prototype.trim
trim(s) == TrimEnd(TrimStart(s))

\* String.prototype.split(sep) for a one-character separator: always at least
\* one piece, "" between adjacent separators and at either end.
RECURSIVE splitFrom(_, _, _)
splitFrom(s, sep, piece) ==
    IF s = <<>> THEN <<piece>>
    ELSE IF Head(s) = sep THEN <<piece>> \o splitFrom(Tail(s), sep, <<>>)
    ELSE splitFrom(Tail(s), sep, Append(piece, Head(s)))

split(s, sep) == splitFrom(s, sep, <<>>)

\* Array.prototype.includes / String.prototype.includes for one character
includes(list, x) == \E i \in 1..Len(list) : list[i] = x

-----------------------------------------------------------------------------
(* The environment of a run: task inputs, pipeline variables and the agent. *)

AuthorChars == {"a", "A", "b", " ", ","}
EmailChars == {"a", "A", "b"}
PromptChars == {"p", "\"", " ", "$"}

\* HTTP status of one host API request
Statuses == {200, 401, 404}

\* The requests of Get-AzureDevOpsPR.ps1 and of Get-AzureDevOpsPRChanges.ps1
PrCalls == {"pullrequest", "workitems", "iterations", "threads"}
ChCalls == {"pullrequest", "iterations", "commits", "changes"}

\* Iteration lists the host API can return: distinct ids, in any order.
IterationLists ==
    {s \in UNION {[1..n -> 1..MaxIterationId] : n \in 0..MaxIterationId} :
        \A i, j \in 1..Len(s) : i # j => s[i] # s[j]}

\* The author filter's operands.
GateNone == [authors |-> <<>>, RequestedForEmail |-> <<"a">>]
GateMiss == [authors |-> <<"b">>, RequestedForEmail |-> <<"a">>]
GateFull ==
    {[authors |-> a, RequestedForEmail |-> e] :
        a \in StrsUpTo(AuthorChars, MaxAuthorsLen),
        e \in StrsUpTo(EmailChars, MaxEmailLen)}

\* The required values and their fallbacks.
CollectionUris ==
    {"", "https://dev.azure.com/org1/", "https://org2.visualstudio.com/",
     "https://dev.azure.com/", "https://tfs.example/tfs/"}
ConfigGood ==
    [githubPat |-> "ghp", useSystemAccessToken |-> FALSE, azureDevOpsPat |-> "pat",
     AccessToken |-> "", organization |-> "org0", CollectionUri |-> "",
     project |-> "proj", repository |-> "repo", pullRequestId |-> "7",
     PullRequestId |-> "", TeamProject |-> "", RepositoryName |-> ""]
ConfigFull ==
    [githubPat : {"", "ghp"}, useSystemAccessToken : BOOLEAN,
     azureDevOpsPat : {"", "pat"}, AccessToken : {"", "sys"},
     organization : {"", "org0"}, CollectionUri : CollectionUris,
     project : {"", "proj"}, repository : {"", "repo"},
     pullRequestId : {"", "7"}, PullRequestId : {"", "8"},
     TeamProject : {""}, RepositoryName : {""}]

\* The three identifiers and the ambient values of the build: the
\* collection URI, System.TeamProject and Build.Repository.Name.
IdentifiersFull ==
    [githubPat : {"ghp"}, useSystemAccessToken : {FALSE},
     azureDevOpsPat : {"pat"}, AccessToken : {""},
     organization : {"", "org0"}, CollectionUri : CollectionUris,
     project : {"", "proj"}, repository : {"", "repo"},
     pullRequestId : {"", "7"}, PullRequestId : {""},
     TeamProject : {"", "teamproj"}, RepositoryName : {"", "buildrepo"}]

\* The prompt inputs and the file the promptFile input names.
PromptFiles == {"", "missing.txt", "workdir", "prompt.txt"}
PromptNone == [prompt |-> <<>>, promptFile |-> "", content |-> <<>>]
PromptFull ==
    {[prompt |-> p, promptFile |-> f, content |-> <<>>] :
        p \in StrsUpTo(PromptChars, MaxPromptLen),
        f \in PromptFiles \ {"prompt.txt"}}
    \cup
    {[prompt |-> p, promptFile |-> "prompt.txt", content |-> c] :
        p \in StrsUpTo(PromptChars, MaxPromptLen),
        c \in StrsUpTo(PromptChars, MaxPromptLen)}

\* The review options and the copy of the helper scripts.
OptionsPlain == [timeout |-> "1", model |-> "", copyOk |-> TRUE]
OptionsFull == [timeout : {"", "0", "1", "2"}, model : {"", "gpt-5"}, copyOk : BOOLEAN]

\* The agent's tools: pwsh and copilot probes, platform, node, the install.
ToolsReady ==
    [pwshStatus |-> 0, win32 |-> TRUE, nodeMajor |-> 22, copilotStatus |-> 0,
     install |-> "exit0"]
ToolsFull ==
    [pwshStatus : {0, 1}, win32 : BOOLEAN, nodeMajor : {21, 22},
     copilotStatus : {0, 1}, install : {"exit0", "exit1", "exit2", "error"}]

\* One context-fetch script: its spawn, the status of each of its requests,
\* and whether its output file can be written.
AllOk(calls) == [spawn |-> "ok", api |-> [c \in calls |-> 200], writeOk |-> TRUE]
FetchFull(calls) ==
    [spawn : {"ok", "error"}, api : [calls -> Statuses], writeOk : BOOLEAN]

IterationsPlain == <<1, 3, 2>>

\* The runs of the comment-posting script that the review CLI makes: the
\* -ThreadId and -Status each is given; "" is a -Status left out.
StatusNames == {"Active", "Fixed", "WontFix", "Closed", "Pending"}
ToolCall == [ThreadId : -1..MaxThreadId, Status : StatusNames \cup {""}]
ToolCallsFull == UNION {[1..n -> ToolCall] : n \in 0..MaxToolCalls}

\* The environments checked: each group of facts ranges over all its values
\* while the other groups keep a plain value; the required values are also
\* combined with an author filter that skips.
Slices == {"gate", "config", "prompt", "options", "tools", "fetchPR",
           "fetchChanges", "iterations", "comments", "identifiers"}

GateOf(s) ==
    CASE s = "gate" -> GateFull
      [] s = "config" -> {GateNone, GateMiss}
      [] OTHER -> {GateNone}
ConfigOf(s) ==
    CASE s = "config" -> ConfigFull
      [] s = "identifiers" -> IdentifiersFull
      [] OTHER -> {ConfigGood}
PromptOf(s) == IF s = "prompt" THEN PromptFull ELSE {PromptNone}
OptionsOf(s) == IF s = "options" THEN OptionsFull ELSE {OptionsPlain}
ToolsOf(s) == IF s = "tools" THEN ToolsFull ELSE {ToolsReady}
FetchPROf(s) == IF s = "fetchPR" THEN FetchFull(PrCalls) ELSE {AllOk(PrCalls)}
FetchChangesOf(s) ==
    IF s = "fetchChanges" THEN FetchFull(ChCalls) ELSE {AllOk(ChCalls)}
IterationsOf(s) == IF s = "iterations" THEN IterationLists ELSE {IterationsPlain}
ToolCallsOf(s) == IF s = "comments" THEN ToolCallsFull ELSE {<<>>}

Unresolved == [ok |-> FALSE]

NoReview ==
    [proc |-> "none", code |-> "none", errored |-> FALSE, timer |-> "none",
     promise |-> "none",
     elapsed |-> 0,
     signals |-> <<>>, filesRead |-> {}, promptFilePath |-> "",
     mergedPrompt |-> <<>>,
     timeoutMs |-> 0, command |-> <<>>]

Init ==
    /\ \E s \in Slices :
         \E g \in GateOf(s), c \in ConfigOf(s), p \in PromptOf(s),
            o \in OptionsOf(s), t \in ToolsOf(s), f \in FetchPROf(s),
            h \in FetchChangesOf(s), it \in IterationsOf(s),
            k \in ToolCallsOf(s) :
           /\ inputs =
                [authors |-> g.authors, githubPat |-> c.githubPat,
                 useSystemAccessToken |-> c.useSystemAccessToken,
                 azureDevOpsPat |-> c.azureDevOpsPat,
                 organization |-> c.organization, project |-> c.project,
                 repository |-> c.repository, pullRequestId |-> c.pullRequestId,
                 timeout |-> o.timeout, model |-> o.model,
                 promptFile |-> p.promptFile, prompt |-> p.prompt]
           /\ variables =
                [RequestedForEmail |-> g.RequestedForEmail,
                 AccessToken |-> c.AccessToken, CollectionUri |-> c.CollectionUri,
                 PullRequestId |-> c.PullRequestId,
                 TeamProject |-> c.TeamProject,
                 RepositoryName |-> c.RepositoryName]
           /\ host =
                [pwshStatus |-> t.pwshStatus, win32 |-> t.win32,
                 nodeMajor |-> t.nodeMajor, copilotStatus |-> t.copilotStatus,
                 install |-> t.install, promptFileContent |-> p.content,
                 copyOk |-> o.copyOk, fetchPR |-> f, fetchChanges |-> h,
                 iterations |-> it, toolCalls |-> k]
    /\ pc = "preflight"
    /\ results = <<>>
    /\ resolved = Unresolved
    /\ procEnv = <<>>
    /\ spawned = <<>>
    /\ scriptArgs = <<>>
    /\ apiCalls = <<>>
    /\ files = {}
    /\ steps = <<>>
    /\ review = NoReview
    /\ reads = {}
    /\ comments = <<>>

-----------------------------------------------------------------------------
(* tl.setResult and the catch block of run(). *)

Failed(message) == [result |-> "Failed", message |-> message]
Succeeded(message) == [result |-> "Succeeded", message |-> message]

\* catch (err): tl.setResult(Failed, `Task failed: ${err.message}`)
TaskFailed(errorMessage) == Failed(<<"Task failed: ">> \o errorMessage)

\* run() sets a result and returns
Finish(r) ==
    /\ results' = Append(results, r)
    /\ pc' = "done"

-----------------------------------------------------------------------------
(* Preflight: pwsh must answer --version, node must be 22+ off Windows. *)

MinNodeMajor == 22

checkPwshAvailable == host.pwshStatus = 0
isWindowsNever == FALSE
isWindows == host.win32
getNodeMajorVersion == host.nodeMajor

PwshMissing == <<"PowerShell 7 (pwsh) is required but not found.">>
NodeTooOld == <<"Node.js 22 or later is required on Linux for GitHub Copilot CLI installation.">>

Preflight ==
    /\ pc = "preflight"
    /\ spawned' = Append(spawned, "pwsh --version")
    /\ IF ~checkPwshAvailable
       THEN Finish(Failed(PwshMissing)) /\ UNCHANGED steps
       ELSE IF ~isWindows /\ getNodeMajorVersion < MinNodeMajor
       THEN Finish(Failed(NodeTooOld)) /\ UNCHANGED steps
       ELSE /\ pc' = "authorFilter"
            /\ steps' = Append(steps, "Preflight")
            /\ UNCHANGED results
    /\ UNCHANGED <<envVars, comments, scriptArgs, reads, resolved, procEnv, apiCalls, files, review>>

-----------------------------------------------------------------------------
(* Author filter: checked before any other input is read. *)

NormalizeEntryNoTrim(email) == toLowerCase(email)

\* authors.split(',').map(email => email.trim().toLowerCase())
NormalizeEntry(email) == toLowerCase(trim(email))
authorList(authors) ==
    LET entries == split(authors, ",")
    IN  [i \in 1..Len(entries) |-> NormalizeEntry(entries[i])]

\* authorList.includes(requestedForEmail.toLowerCase())
AuthorListed(authors, requestedForEmail) ==
    includes(authorList(authors), toLowerCase(requestedForEmail))

SkippedMessage == <<"Skipped: PR author not in configured authors list.">>

AuthorFilterAfterToken ==
    /\ pc = "authorFilter"
    /\ IF inputs.githubPat = ""
       THEN Finish(Failed(<<"Task failed: ", "Input required: githubPat">>))
            /\ UNCHANGED steps
       ELSE IF inputs.authors # <<>>
               /\ ~AuthorListed(inputs.authors, variables.RequestedForEmail)
       THEN Finish(Succeeded(SkippedMessage)) /\ UNCHANGED steps
       ELSE /\ pc' = "inputs"
            /\ steps' = Append(steps, "AuthorGate")
            /\ UNCHANGED results
    /\ reads' = reads \cup {"githubPat", "authors"}
    /\ UNCHANGED <<envVars, comments, scriptArgs, resolved, procEnv, spawned, apiCalls, files, review>>

AuthorFilter ==
    /\ pc = "authorFilter"
    /\ IF inputs.authors # <<>>
          /\ ~AuthorListed(inputs.authors, variables.RequestedForEmail)
       THEN Finish(Succeeded(SkippedMessage)) /\ UNCHANGED steps
       ELSE /\ pc' = "inputs"
            /\ steps' = Append(steps, "AuthorGate")
            /\ UNCHANGED results
    /\ reads' = reads \cup {"authors"}
                 \cup (IF inputs.authors # <<>> THEN {"Build.RequestedForEmail"}
                       ELSE {})
    /\ UNCHANGED <<envVars, comments, scriptArgs, resolved, procEnv, spawned, apiCalls, files, review>>

-----------------------------------------------------------------------------
(* Input resolution: required inputs, credential selection, fallbacks. *)

\* collectionUri.match(/https:\/\/dev\.azure\.com\/([^\/]+)/), "" for no match
devAzureMatch(collectionUri) ==
    CASE collectionUri = "https://dev.azure.com/org1/" -> "org1"
      [] OTHER -> ""

\* collectionUri.match(/https:\/\/([^\.]+)\.visualstudio\.com/), "" for no match
vstsMatch(collectionUri) ==
    CASE collectionUri = "https://org2.visualstudio.com/" -> "org2"
      [] OTHER -> ""

\* let organization = tl.getInput('organization'), else auto-detected
ResolveOrganization ==
    IF inputs.organization # "" THEN inputs.organization
    ELSE IF variables.CollectionUri = "" THEN ""
    ELSE IF devAzureMatch(variables.CollectionUri) # ""
         THEN devAzureMatch(variables.CollectionUri)
    ELSE vstsMatch(variables.CollectionUri)

\* pullRequestId input, else System.PullRequest.PullRequestId
ResolvePullRequestId ==
    IF inputs.pullRequestId # "" THEN inputs.pullRequestId
    ELSE variables.PullRequestId

\* parseInt(tl.getInput('timeout') || '15', 10)
parseInt(text) ==
    CASE text = "0" -> 0
      [] text = "1" -> 1
      [] text = "2" -> 2
      [] text = "15" -> 15
timeoutMinutesZeroAsDefault ==
    parseInt(IF inputs.timeout \in {"", "0"} THEN "15" ELSE inputs.timeout)

timeoutMinutes == parseInt(IF inputs.timeout # "" THEN inputs.timeout ELSE "15")

GithubPatRequired == <<"Input required: githubPat">>
SystemTokenMissing == <<"System.AccessToken is not available.">>
AuthRequired == <<"Azure DevOps authentication is required.">>
OrganizationRequired == <<"Organization is required.">>
ProjectRequired == <<"Project is required.">>
RepositoryRequired == <<"Repository is required.">>
PullRequestIdRequired == <<"Pull Request ID is required.">>

Rejected(r) == [ok |-> FALSE, result |-> r]

ResolveConfigNoRepositoryCheck ==
    IF inputs.githubPat = "" \/ inputs.azureDevOpsPat = "" \/ inputs.project = ""
    THEN Rejected(Failed(ProjectRequired))
    ELSE [ok |-> TRUE, githubPat |-> inputs.githubPat,
          azureDevOpsToken |-> inputs.azureDevOpsPat,
          azureDevOpsAuthType |-> "Basic", organization |-> "org0",
          project |-> inputs.project, repository |-> inputs.repository,
          pullRequestId |-> "7", timeoutMinutes |-> timeoutMinutes,
          model |-> inputs.model]

ResolveConfigNoOrganizationCheck ==
    IF inputs.githubPat = "" \/ inputs.azureDevOpsPat = "" \/ inputs.project = ""
       \/ inputs.repository = "" \/ inputs.pullRequestId = ""
    THEN Rejected(Failed(PullRequestIdRequired))
    ELSE [ok |-> TRUE, githubPat |-> inputs.githubPat,
          azureDevOpsToken |-> inputs.azureDevOpsPat,
          azureDevOpsAuthType |-> "Basic", organization |-> inputs.organization,
          project |-> inputs.project, repository |-> inputs.repository,
          pullRequestId |-> inputs.pullRequestId,
          timeoutMinutes |-> timeoutMinutes, model |-> inputs.model]

\* Lines 92-178 of run(): the first failing check decides.
ResolveConfig ==
    IF inputs.githubPat = "" THEN Rejected(TaskFailed(GithubPatRequired))
    ELSE IF inputs.useSystemAccessToken /\ variables.AccessToken = ""
         THEN Rejected(Failed(SystemTokenMissing))
    ELSE IF ~inputs.useSystemAccessToken /\ inputs.azureDevOpsPat = ""
         THEN Rejected(Failed(AuthRequired))
    ELSE IF ResolveOrganization = "" THEN Rejected(Failed(OrganizationRequired))
    ELSE IF inputs.project = "" THEN Rejected(Failed(ProjectRequired))
    ELSE IF inputs.repository = "" THEN Rejected(Failed(RepositoryRequired))
    ELSE IF ResolvePullRequestId = "" THEN Rejected(Failed(PullRequestIdRequired))
    ELSE [ok |-> TRUE,
          githubPat |-> inputs.githubPat,
          azureDevOpsToken |->
              IF inputs.useSystemAccessToken THEN variables.AccessToken
              ELSE inputs.azureDevOpsPat,
          azureDevOpsAuthType |->
              IF inputs.useSystemAccessToken THEN "Bearer" ELSE "Basic",
          organization |-> ResolveOrganization,
          project |-> inputs.project,
          repository |-> inputs.repository,
          pullRequestId |-> ResolvePullRequestId,
          timeoutMinutes |-> timeoutMinutes,
          model |-> inputs.model]

\* The tl.getInput and tl.getVariable calls of lines 93-203, up to the
\* return of the first failing check.
InputsRead ==
    LET credential ==
            {"githubPat", "useSystemAccessToken", "azureDevOpsPat"}
            \cup (IF inputs.useSystemAccessToken THEN {"System.AccessToken"}
                  ELSE {})
        identifiers ==
            credential \cup {"organization", "project", "repository"}
            \cup (IF inputs.organization = "" THEN {"System.CollectionUri"}
                  ELSE {})
        options ==
            identifiers
            \cup {"pullRequestId", "timeout", "model", "promptFile", "prompt"}
            \cup (IF inputs.pullRequestId = ""
                  THEN {"System.PullRequest.PullRequestId"} ELSE {})
    IN  IF inputs.githubPat = "" THEN {"githubPat"}
        ELSE IF (inputs.useSystemAccessToken /\ variables.AccessToken = "")
                \/ (~inputs.useSystemAccessToken /\ inputs.azureDevOpsPat = "")
             THEN credential
        ELSE IF ResolveOrganization = "" \/ inputs.project = ""
                \/ inputs.repository = ""
             THEN identifiers
        ELSE IF ResolvePullRequestId = "" THEN options
        ELSE options \cup {"System.DefaultWorkingDirectory"}

ExportedEnvWithPat(config) ==
    [GH_TOKEN |-> config.githubPat,
     AZUREDEVOPS_TOKEN |-> inputs.azureDevOpsPat,
     AZUREDEVOPS_AUTH_TYPE |-> "Basic",
     ORGANIZATION |-> config.organization,
     PROJECT |-> config.project,
     REPOSITORY |-> config.repository,
     PRID |-> config.pullRequestId]

\* Lines 193-200: process.env entries for the scripts
ExportedEnv(config) ==
    [GH_TOKEN |-> config.githubPat,
     AZUREDEVOPS_TOKEN |-> config.azureDevOpsToken,
     AZUREDEVOPS_AUTH_TYPE |-> config.azureDevOpsAuthType,
     ORGANIZATION |-> config.organization,
     PROJECT |-> config.project,
     REPOSITORY |-> config.repository,
     PRID |-> config.pullRequestId]

ResolveInputs ==
    /\ pc = "inputs"
    /\ LET config == ResolveConfig
       IN  IF ~config.ok
           THEN Finish(config.result) /\ UNCHANGED <<resolved, procEnv, steps>>
           ELSE /\ resolved' = config
                /\ procEnv' = ExportedEnv(config)
                /\ steps' = Append(steps, "InputsResolved")
                /\ pc' = "checkCli"
                /\ UNCHANGED results
    /\ reads' = reads \cup InputsRead
    /\ UNCHANGED <<envVars, comments, scriptArgs, spawned, apiCalls, files, review>>

-----------------------------------------------------------------------------
(* Tool provisioning: probe the Copilot CLI, install it when the probe fails. *)

\* The close code of the install process
InstallCode ==
    CASE host.install = "exit0" -> "0"
      [] host.install = "exit1" -> "1"
      [] host.install = "exit2" -> "2"

checkCopilotCliAnyStatus == host.copilotStatus >= 0

checkCopilotCli == host.copilotStatus = 0

InstallExit(code) == <<"Failed to install GitHub Copilot CLI. Exit code: ", code>>
InstallError == <<"Failed to install GitHub Copilot CLI: ", "spawn error">>

CheckCopilotCli ==
    /\ pc = "checkCli"
    /\ spawned' = Append(spawned, "copilot --version")
    /\ IF checkCopilotCli
       THEN pc' = "fetchPR" /\ steps' = Append(steps, "ToolReady")
       ELSE pc' = "install" /\ UNCHANGED steps
    /\ UNCHANGED <<envVars, comments, scriptArgs, reads, results, resolved, procEnv, apiCalls, files, review>>

InstallCopilotCliThenGoesOn ==
    /\ pc = "install"
    /\ spawned' = Append(spawned, "install copilot")
    /\ pc' = "fetchPR"
    /\ steps' = Append(steps, "ToolReady")
    /\ results' = IF host.install = "exit0" THEN results
                  ELSE Append(results, TaskFailed(InstallExit("1")))
    /\ UNCHANGED <<envVars, comments, scriptArgs, reads, resolved, procEnv, apiCalls, files, review>>

\* installCopilotCli: resolve on close with code 0, reject otherwise
InstallCopilotCli ==
    /\ pc = "install"
    /\ spawned' = Append(spawned, "install copilot")
    /\ CASE host.install = "exit0" ->
              /\ pc' = "fetchPR"
              /\ steps' = Append(steps, "ToolReady")
              /\ UNCHANGED results
         [] host.install \in {"exit1", "exit2"} ->
              Finish(TaskFailed(InstallExit(InstallCode))) /\ UNCHANGED steps
         [] host.install = "error" ->
              Finish(TaskFailed(InstallError)) /\ UNCHANGED steps
    /\ UNCHANGED <<envVars, comments, scriptArgs, reads, resolved, procEnv, apiCalls, files, review>>

-----------------------------------------------------------------------------
(* The context-fetch scripts.  A script run yields its exit code, the host *)
(* API requests it made and whether it wrote its output file.  Exit codes  *)
(* are written as they appear in messages: "0", "1", "null".  The scripts  *)
(* are modelled from their main logic, with -Id and -Repository given as   *)
(* run() gives them; the binding of their parameters is not modelled.      *)

Request(script, name, iteration) ==
    [script |-> script, request |-> name, iteration |-> iteration]

\* Invoke-AzureDevOpsApi: the response, or $null after Write-Error
IsNull(status) == status # 200

\* Get-AzureDevOpsPR.ps1 with -Id and -Repository given
GetAzureDevOpsPR(fetch) ==
    IF IsNull(fetch.api["pullrequest"])
    THEN \* Write-Warning "... not found in repository"; exit 0
         [code |-> "0", wrote |-> FALSE,
          calls |-> <<Request("PR", "pullrequest", 0)>>]
    ELSE [code |-> "0", wrote |-> fetch.writeOk,
          calls |-> <<Request("PR", "pullrequest", 0),
                      Request("PR", "workitems", 0),
                      Request("PR", "iterations", 0),
                      Request("PR", "threads", 0)>>]

\* Sort-Object -Property id -Descending
RECURSIVE InsertDescending(_, _)
InsertDescending(id, sorted) ==
    IF sorted = <<>> THEN <<id>>
    ELSE IF id >= Head(sorted) THEN <<id>> \o sorted
    ELSE <<Head(sorted)>> \o InsertDescending(id, Tail(sorted))

RECURSIVE SortDescending(_)
SortDescending(ids) ==
    IF ids = <<>> THEN <<>>
    ELSE InsertDescending(Head(ids), SortDescending(Tail(ids)))

PickFirstReturned(iterations) == Head(iterations)

\* $iterations.value | Sort-Object -Property id -Descending | Select-Object -First 1
latestIteration(iterations) == Head(SortDescending(iterations))

\* Get-AzureDevOpsPRChanges.ps1
GetAzureDevOpsPRChanges(fetch, iterations) ==
    IF IsNull(fetch.api["pullrequest"])
    THEN \* exit 1
         [code |-> "1", wrote |-> FALSE,
          calls |-> <<Request("Changes", "pullrequest", 0)>>]
    ELSE IF IsNull(fetch.api["iterations"]) \/ Len(iterations) = 0
    THEN \* Write-Warning "No iterations found"; exit 0
         [code |-> "0", wrote |-> FALSE,
          calls |-> <<Request("Changes", "pullrequest", 0),
                      Request("Changes", "iterations", 0)>>]
    ELSE [code |-> "0", wrote |-> fetch.writeOk,
          calls |-> <<Request("Changes", "pullrequest", 0),
                      Request("Changes", "iterations", 0),
                      Request("Changes", "commits", 0),
                      Request("Changes", "changes", latestIteration(iterations))>>]

\* The argument list run() builds for a context-fetch script
ScriptArguments(name, output) ==
    [script |-> name,
     Token |-> resolved.azureDevOpsToken,
     AuthType |-> resolved.azureDevOpsAuthType,
     Organization |-> resolved.organization,
     Project |-> resolved.project,
     Repository |-> resolved.repository,
     Id |-> resolved.pullRequestId,
     OutputFile |-> output]

ScriptExit(code) == <<"PowerShell script failed with exit code: ", code>>
ScriptError == <<"Failed to run PowerShell script: ", "spawn error">>

runPowerShellScriptAnyCode(name, fetch, run, output, next, stage) ==
    /\ spawned' = Append(spawned, name)
    /\ scriptArgs' = Append(scriptArgs, ScriptArguments(name, output))
    /\ IF fetch.spawn = "error"
       THEN /\ Finish(TaskFailed(ScriptError))
            /\ UNCHANGED <<apiCalls, files, steps>>
       ELSE /\ apiCalls' = apiCalls \o run.calls
            /\ files' = IF run.wrote THEN files \cup {output} ELSE files
            /\ pc' = next
            /\ steps' = steps \o stage
            /\ UNCHANGED results

\* runPowerShellScript: spawn, then resolve on close with code 0, reject otherwise
runPowerShellScript(name, fetch, run, output, next, stage) ==
    /\ spawned' = Append(spawned, name)
    /\ scriptArgs' = Append(scriptArgs, ScriptArguments(name, output))
    /\ IF fetch.spawn = "error"
       THEN /\ Finish(TaskFailed(ScriptError))
            /\ UNCHANGED <<apiCalls, files, steps>>
       ELSE /\ apiCalls' = apiCalls \o run.calls
            /\ files' = IF run.wrote THEN files \cup {output} ELSE files
            /\ IF run.code = "0"
               THEN /\ pc' = next
                    /\ steps' = steps \o stage
                    /\ UNCHANGED results
               ELSE /\ Finish(TaskFailed(ScriptExit(run.code)))
                    /\ UNCHANGED steps

FetchPRDetails ==
    /\ pc = "fetchPR"
    /\ runPowerShellScript("Get-AzureDevOpsPR.ps1", host.fetchPR,
                           GetAzureDevOpsPR(host.fetchPR),
                           "PR_Details.txt", "fetchChanges", <<>>)
    /\ UNCHANGED <<envVars, comments, reads, resolved, procEnv, review>>

FetchPRChanges ==
    /\ pc = "fetchChanges"
    /\ runPowerShellScript("Get-AzureDevOpsPRChanges.ps1", host.fetchChanges,
                           GetAzureDevOpsPRChanges(host.fetchChanges, host.iterations),
                           "Iteration_Details.txt", "prompt", <<"ContextFetched">>)
    /\ UNCHANGED <<envVars, comments, reads, resolved, procEnv, review>>

-----------------------------------------------------------------------------
(* Prompt assembly: inline prompt, else prompt file, else the bundled one. *)

Quote == "\""

ExistsOnDisk(path) == path \in {"prompt.txt", "workdir"}

\* fs.existsSync(promptFile) && fs.statSync(promptFile).isFile()
IsRegularFile(path) == path = "prompt.txt"
isPromptFileSet == inputs.promptFile # "" /\ IsRegularFile(inputs.promptFile)

\* scripts/prompt-custom.txt: instruction text around one placeholder
Placeholder == "%CUSTOMPROMPT%"
templateContent == <<"[instructions]", Placeholder, "[output rules]">>

\* The replacement patterns of String.prototype.replace: "$$" inserts "$"
RECURSIVE ExpandReplacement(_)
ExpandReplacement(text) ==
    IF Len(text) >= 2 /\ text[1] = "$" /\ text[2] = "$"
    THEN <<"$">> \o ExpandReplacement(SubSeq(text, 3, Len(text)))
    ELSE IF text = <<>> THEN <<>>
    ELSE <<Head(text)>> \o ExpandReplacement(Tail(text))

\* template.replace(pattern, replacement): the first occurrence only
replace(template, pattern, replacement) ==
    IF ~includes(template, pattern) THEN template
    ELSE LET at == CHOOSE i \in 1..Len(template) :
                       /\ template[i] = pattern
                       /\ \A j \in 1..(i - 1) : template[j] # pattern
         IN  SubSeq(template, 1, at - 1) \o ExpandReplacement(replacement)
               \o SubSeq(template, at + 1, Len(template))

QuoteInPrompt == <<"Custom prompts cannot include double quotes (\").", "prompt input">>
QuoteInFile == <<"Custom prompts cannot include double quotes (\").", "prompt file">>
PromptFileEmpty == <<"Prompt file is empty: ", "prompt file">>

DefaultPromptPath == "scripts/prompt.txt"
MergedPromptPath == "_copilot_prompt.txt"
TemplatePath == "scripts/prompt-custom.txt"

SelectPromptNoTrim ==
    IF inputs.prompt # <<>>
    THEN [source |-> "input", text |-> inputs.prompt]
    ELSE IF isPromptFileSet
    THEN [source |-> "file", text |-> host.promptFileContent]
    ELSE [source |-> "default", text |-> <<>>]

\* Lines 259-280: which text is the custom prompt, before validation
SelectPrompt ==
    IF inputs.prompt # <<>>
    THEN [source |-> "input", text |-> inputs.prompt]
    ELSE IF isPromptFileSet
    THEN [source |-> "file", text |-> trim(host.promptFileContent)]
    ELSE [source |-> "default", text |-> <<>>]

AcceptAnyPrompt(selected) ==
    IF selected.source = "file" /\ selected.text = <<>>
    THEN Failed(PromptFileEmpty)
    ELSE Succeeded(<<>>)

\* Lines 262-278: the validation of the selected text; Succeeded when it passes
ValidatePrompt(selected) ==
    IF selected.source = "input" /\ includes(selected.text, Quote)
    THEN Failed(QuoteInPrompt)
    ELSE IF selected.source = "file" /\ selected.text = <<>>
    THEN Failed(PromptFileEmpty)
    ELSE IF selected.source = "file" /\ includes(selected.text, Quote)
    THEN Failed(QuoteInFile)
    ELSE Succeeded(<<>>)

\* fs.readFileSync calls of lines 270 and 285
FilesRead(selected, verdict) ==
    (IF selected.source = "file" THEN {inputs.promptFile} ELSE {})
    \cup (IF verdict.result = "Succeeded" /\ selected.text # <<>>
          THEN {TemplatePath} ELSE {})

AssemblePrompt ==
    /\ pc = "prompt"
    /\ LET selected == SelectPrompt
           verdict == ValidatePrompt(selected)
           read == FilesRead(selected, verdict)
       IN  IF verdict.result = "Failed"
           THEN /\ Finish(verdict)
                /\ review' = [review EXCEPT !.filesRead = read]
                /\ UNCHANGED <<files, steps>>
           ELSE /\ IF selected.text # <<>>
                   THEN /\ files' = files \cup {MergedPromptPath}
                        /\ review' =
                             [review EXCEPT
                                !.filesRead = read,
                                !.promptFilePath = MergedPromptPath,
                                !.mergedPrompt =
                                    replace(templateContent, Placeholder,
                                            selected.text)]
                   ELSE /\ review' =
                             [review EXCEPT
                                !.filesRead = read,
                                !.promptFilePath = DefaultPromptPath]
                        /\ UNCHANGED files
                /\ steps' = Append(steps, "PromptReady")
                /\ pc' = "startReview"
                /\ UNCHANGED results
    /\ UNCHANGED <<envVars, comments, scriptArgs, reads, resolved, procEnv, spawned, apiCalls>>

-----------------------------------------------------------------------------
(* Review invocation: copy the helper scripts, spawn the CLI, race a timer. *)

MsPerMinute == 60000

CopyFailed == <<"copyFileSync failed">>
TimedOut(minutes) ==
    <<"Copilot review timed out after ", ToString(minutes), " minutes">>
CliExitOne(code) == <<"Copilot CLI exited with code: ", "1">>
CliExit(code) == <<"Copilot CLI exited with code: ", code>>
CliError == <<"Failed to run Copilot CLI: ", "spawn error">>
Completed == <<"Copilot code review completed.">>

psCommandBundledPrompt(promptFilePath, model) ==
    [promptFrom |-> DefaultPromptPath, denyTool |-> "shell(git push)",
     model |-> model]

\* psCommand: the prompt is read from the file, never spliced into the command
psCommand(promptFilePath, model) ==
    [promptFrom |-> promptFilePath, denyTool |-> "shell(git push)",
     model |-> model]

\* Lines 299-312 and 401-433: copies, spawn, setTimeout
StartReview ==
    /\ pc = "startReview"
    /\ IF ~host.copyOk
       THEN /\ Finish(TaskFailed(CopyFailed))
            /\ UNCHANGED <<files, spawned, review>>
       ELSE /\ files' = files \cup {"Add-AzureDevOpsPRComment.ps1",
                                    "Add-CopilotComment.ps1"}
            /\ spawned' = Append(spawned, "copilot review")
            /\ review' =
                 [review EXCEPT
                    !.proc = "running", !.timer = "armed", !.promise = "pending",
                    !.timeoutMs = resolved.timeoutMinutes * 60 * 1000,
                    !.command = psCommand(review.promptFilePath, resolved.model)]
            /\ pc' = "review"
            /\ UNCHANGED results
    /\ UNCHANGED <<envVars, comments, scriptArgs, reads, resolved, procEnv, apiCalls, steps>>

\* A minute passes while the timer is armed and not yet due.
Tick ==
    /\ review.timer = "armed"
    /\ review.elapsed * MsPerMinute < review.timeoutMs
    /\ review' = [review EXCEPT !.elapsed = @ + 1]
    /\ UNCHANGED <<envVars, comments, scriptArgs, reads, pc, results, resolved, procEnv, spawned, apiCalls,
                   files, steps>>

SettleAlways(outcome) ==
    IF outcome.result = "Succeeded"
    THEN /\ steps' = Append(steps, "ReviewRan")
         /\ Finish(outcome)
    ELSE /\ Finish(outcome)
         /\ UNCHANGED steps

\* The promise of runCopilotCli settles once; run() then finishes.
Settle(outcome) ==
    IF review.promise = "pending"
    THEN IF outcome.result = "Succeeded"
         THEN /\ steps' = Append(steps, "ReviewRan")
              /\ Finish(outcome)
         ELSE /\ Finish(outcome)
              /\ UNCHANGED steps
    ELSE UNCHANGED <<pc, results, steps>>

Settled(outcome) ==
    IF review.promise # "pending" THEN review.promise
    ELSE IF outcome.result = "Succeeded" THEN "resolved" ELSE "rejected"

TimerFiresAndEscalates ==
    /\ review.timer = "armed"
    /\ review.elapsed * MsPerMinute >= review.timeoutMs
    /\ LET outcome == TaskFailed(TimedOut(review.timeoutMs \div MsPerMinute))
       IN  /\ review' =
                [review EXCEPT
                   !.timer = "fired",
                   !.signals = @ \o <<"SIGTERM", "SIGKILL">>,
                   !.promise = Settled(outcome)]
           /\ Settle(outcome)
    /\ UNCHANGED <<envVars, comments, scriptArgs, reads, resolved, procEnv, spawned, apiCalls, files>>

TimerFiresWithoutKill ==
    /\ review.timer = "armed"
    /\ review.elapsed * MsPerMinute >= review.timeoutMs
    /\ LET outcome == TaskFailed(TimedOut(review.timeoutMs \div MsPerMinute))
       IN  /\ review' =
                [review EXCEPT !.timer = "fired", !.promise = Settled(outcome)]
           /\ Settle(outcome)
    /\ UNCHANGED <<envVars, comments, scriptArgs, reads, resolved, procEnv, spawned, apiCalls, files>>

\* The setTimeout callback: kill('SIGTERM'), reject
TimerFires ==
    /\ review.timer = "armed"
    /\ review.elapsed * MsPerMinute >= review.timeoutMs
    /\ LET outcome == TaskFailed(TimedOut(review.timeoutMs \div MsPerMinute))
       IN  /\ review' =
                [review EXCEPT
                   !.timer = "fired",
                   !.signals = Append(@, "SIGTERM"),
                   !.promise = Settled(outcome)]
           /\ Settle(outcome)
    /\ UNCHANGED <<envVars, comments, scriptArgs, reads, resolved, procEnv, spawned, apiCalls, files>>

\* Close codes of the review process: null once it was signalled, the
\* negative errno when it could not be spawned
ExitCodes ==
    IF review.proc = "failed" /\ review.signals = <<>> THEN {"-2"}
    ELSE IF review.signals = <<>> THEN {"0", "1", "2"}
    ELSE {"0", "1", "2", "null"}

ReviewClosesKeepsTimer ==
    /\ review.proc \in {"running", "failed"}
    /\ \E code \in ExitCodes :
         LET outcome == IF code = "0" THEN Succeeded(Completed)
                        ELSE TaskFailed(CliExit(code))
         IN  /\ review' =
                  [review EXCEPT
                     !.proc = "closed",
                     !.code = code,
                     !.promise = Settled(outcome)]
             /\ Settle(outcome)
    /\ UNCHANGED <<envVars, comments, scriptArgs, reads, resolved, procEnv, spawned, apiCalls, files>>

\* copilotProcess.on('close'): clearTimeout, resolve on 0, reject otherwise
ReviewCloses ==
    /\ review.proc \in {"running", "failed"}
    /\ \E code \in ExitCodes :
         LET outcome == IF code = "0" THEN Succeeded(Completed)
                        ELSE TaskFailed(CliExit(code))
         IN  /\ review' =
                  [review EXCEPT
                     !.proc = "closed",
                     !.code = code,
                     !.timer = IF @ = "armed" THEN "cleared" ELSE @,
                     !.promise = Settled(outcome)]
             /\ Settle(outcome)
    /\ UNCHANGED <<envVars, comments, scriptArgs, reads, resolved, procEnv, spawned, apiCalls, files>>

\* copilotProcess.on('error'): clearTimeout, reject
ReviewErrors ==
    /\ review.proc = "running"
    /\ LET outcome == TaskFailed(CliError)
       IN  /\ review' =
                [review EXCEPT
                   !.proc = "failed",
                   !.errored = TRUE,
                   !.timer = IF @ = "armed" THEN "cleared" ELSE @,
                   !.promise = Settled(outcome)]
           /\ Settle(outcome)
    /\ UNCHANGED <<envVars, comments, scriptArgs, reads, resolved, procEnv, spawned, apiCalls, files>>

-----------------------------------------------------------------------------
(* Add-AzureDevOpsPRComment.ps1, which the review CLI runs to post its      *)
(* findings: verify the pull request, then reply to a thread or open one.  *)

GetThreadStatusValueFromZero(StatusName) ==
    CASE StatusName = "Active" -> 0
      [] StatusName = "Fixed" -> 1
      [] StatusName = "WontFix" -> 2
      [] StatusName = "Closed" -> 3
      [] StatusName = "Pending" -> 4
      [] OTHER -> 0

\* Get-ThreadStatusValue
GetThreadStatusValue(StatusName) ==
    CASE StatusName = "Active" -> 1
      [] StatusName = "Fixed" -> 2
      [] StatusName = "WontFix" -> 3
      [] StatusName = "Closed" -> 4
      [] StatusName = "Pending" -> 5
      [] OTHER -> 1

\* [string]$Status = "Active"
BoundStatus(call) == IF call.Status = "" THEN "Active" ELSE call.Status

\* One request of the script: thread is the thread addressed (0 for none),
\* status the status field of the body (0 for a body without one).
Send(method, resource, thread, status, response) ==
    [method |-> method, resource |-> resource, thread |-> thread,
     status |-> status, response |-> response]

\* The main logic, given the HTTP status of each request it may make
AddAzureDevOpsPRCommentScript(call, pr, existingThread, result) ==
    IF IsNull(pr)
    THEN \* Write-Error "Could not find pull request"; exit 1
         [code |-> "1", requests |-> <<Send("Get", "pullrequest", 0, 0, pr)>>]
    ELSE IF call.ThreadId > 0
    THEN IF IsNull(existingThread)
         THEN \* Write-Error "Could not find thread"; exit 1
              [code |-> "1",
               requests |-> <<Send("Get", "pullrequest", 0, 0, pr),
                              Send("Get", "thread", call.ThreadId, 0,
                                   existingThread)>>]
         ELSE [code |-> "0",
               requests |-> <<Send("Get", "pullrequest", 0, 0, pr),
                              Send("Get", "thread", call.ThreadId, 0,
                                   existingThread),
                              Send("Post", "comments", call.ThreadId, 0, result)>>]
    ELSE [code |-> "0",
          requests |-> <<Send("Get", "pullrequest", 0, 0, pr),
                         Send("Post", "threads", 0,
                              GetThreadStatusValue(BoundStatus(call)), result)>>]

\* The review CLI runs the script while it is alive.
AddAzureDevOpsPRComment ==
    /\ review.proc = "running"
    /\ Len(comments) < Len(host.toolCalls)
    /\ LET call == host.toolCalls[Len(comments) + 1]
       IN  \E pr \in Statuses, existingThread \in Statuses, result \in Statuses :
             comments' =
               Append(comments,
                      [call |-> call,
                       run |-> AddAzureDevOpsPRCommentScript(call, pr,
                                                            existingThread, result)])
    /\ UNCHANGED <<envVars, pc, results, resolved, procEnv, spawned, apiCalls,
                   files, steps, review, reads, scriptArgs>>

-----------------------------------------------------------------------------

Next ==
    \/ Preflight
    \/ AuthorFilter
    \/ ResolveInputs
    \/ CheckCopilotCli
    \/ InstallCopilotCli
    \/ FetchPRDetails
    \/ FetchPRChanges
    \/ AssemblePrompt
    \/ StartReview
    \/ Tick
    \/ TimerFires
    \/ ReviewCloses
    \/ ReviewErrors
    \/ AddAzureDevOpsPRComment

Spec == Init /\ [][Next]_vars

-----------------------------------------------------------------------------
(* Vocabulary of the properties. *)

Started(name) == includes(spawned, name)
Reached(stage) == includes(steps, stage)

FetchScripts == {"Get-AzureDevOpsPR.ps1", "Get-AzureDevOpsPRChanges.ps1"}
NetworkProcesses == FetchScripts \cup {"install copilot", "copilot review"}

NoNetworkYet ==
    /\ \A i \in 1..Len(spawned) : spawned[i] \notin NetworkProcesses
    /\ apiCalls = <<>>

Skipped == results = <<Succeeded(SkippedMessage)>>
EndedFailed == Len(results) = 1 /\ results[1].result = "Failed"

\* The author filter has been evaluated in this run.
GateEvaluated == Reached("Preflight") /\ pc # "authorFilter"

\* The entries of the comma-separated list: the maximal comma-free stretches
\* authors[i..j], the empty ones (j = i - 1) included.
IsEntry(authors, i, j) ==
    /\ j >= i - 1
    /\ \A k \in i..j : authors[k] # ","
    /\ i = 1 \/ authors[i - 1] = ","
    /\ j = Len(authors) \/ authors[j + 1] = ","

RequesterListed ==
    \E i \in 1..(Len(inputs.authors) + 1), j \in 0..Len(inputs.authors) :
        /\ IsEntry(inputs.authors, i, j)
        /\ toLowerCase(trim(SubSeq(inputs.authors, i, j)))
             = toLowerCase(variables.RequestedForEmail)

-----------------------------------------------------------------------------
(* C1: once the author filter has been evaluated, the run has passed it    *)
(* exactly when no allow-list is configured or the lower-cased requester   *)
(* email equals a trimmed, lower-cased entry of the list; otherwise the    *)
(* run has ended Succeeded with the skip message, and no context-fetch     *)
(* script and no review subprocess is ever started.                        *)
C1_AuthorGate ==
    GateEvaluated =>
        IF inputs.authors = <<>> \/ RequesterListed
        THEN Reached("AuthorGate") /\ ~Skipped
        ELSE /\ Skipped
             /\ pc = "done"
             /\ ~Reached("AuthorGate")
             /\ \A p \in FetchScripts \cup {"copilot review"} : ~Started(p)
             /\ apiCalls = <<>>

\* A requester written in upper case passes on a list entry that needs
\* trimming, and the run goes on to fetch the pull request.
C1_Witness ==
    /\ inputs.authors = <<" ", "a">>
    /\ variables.RequestedForEmail = <<"A">>
    /\ Reached("AuthorGate")
    /\ Started("Get-AzureDevOpsPR.ps1")

-----------------------------------------------------------------------------
(* Required values, as the task's inputs and pipeline variables give them. *)

CredentialMissing ==
    IF inputs.useSystemAccessToken THEN variables.AccessToken = ""
    ELSE inputs.azureDevOpsPat = ""

OrganizationMissing ==
    /\ inputs.organization = ""
    /\ variables.CollectionUri \notin
         {"https://dev.azure.com/org1/", "https://org2.visualstudio.com/"}

PullRequestIdMissing == inputs.pullRequestId = "" /\ variables.PullRequestId = ""

RequiredMissing ==
    \/ inputs.githubPat = ""
    \/ CredentialMissing
    \/ OrganizationMissing
    \/ inputs.project = ""
    \/ inputs.repository = ""
    \/ PullRequestIdMissing

GateSkips == inputs.authors # <<>> /\ ~RequesterListed

(* C2 as stated: every finished run of a configuration with a required     *)
(* value missing has ended Failed, with no network call made.              *)
C2_Original ==
    RequiredMissing /\ pc = "done" => EndedFailed /\ NoNetworkYet

(* C2, amended: with a required value missing, no network call is ever     *)
(* made; the finished run has ended Failed unless the author filter, which *)
(* runs before the inputs are read, skipped it (then it ended Succeeded    *)
(* with the skip message).                                                 *)
C2_RequiredMissing ==
    RequiredMissing =>
        /\ NoNetworkYet
        /\ resolved = Unresolved
        /\ pc = "done" => IF GateSkips /\ Reached("Preflight")
                          THEN Skipped ELSE EndedFailed

\* Only the pull-request id is missing, the last value checked: the run
\* passed the author filter and failed on it.
C2_Witness ==
    /\ PullRequestIdMissing
    /\ inputs.githubPat # "" /\ ~CredentialMissing /\ ~OrganizationMissing
    /\ inputs.project # "" /\ inputs.repository # ""
    /\ Reached("AuthorGate")
    /\ results = <<Failed(PullRequestIdRequired)>>

-----------------------------------------------------------------------------
(* The prompt text the run selects, as the inputs and the file give it. *)

HasQuote(text) == \E i \in 1..Len(text) : text[i] = "\""

InlinePromptSet == inputs.prompt # <<>>
PromptFileUsable == inputs.promptFile = "prompt.txt"

SelectedTextHasQuote ==
    \/ InlinePromptSet /\ HasQuote(inputs.prompt)
    \/ ~InlinePromptSet /\ PromptFileUsable /\ HasQuote(host.promptFileContent)

QuoteFailure ==
    IF InlinePromptSet THEN Failed(QuoteInPrompt) ELSE Failed(QuoteInFile)

(* C3 as stated: when the run fails on a double quote in the selected      *)
(* prompt text, no install, context-fetch or review process has been       *)
(* started.                                                                *)
C3_Original ==
    SelectedTextHasQuote /\ results = <<QuoteFailure>> =>
        \A p \in NetworkProcesses : ~Started(p)

(* C3, amended: a selected prompt text containing a double quote fails the *)
(* run at prompt assembly, which comes after tool provisioning and both    *)
(* context-fetch scripts: the review subprocess is never started and no    *)
(* merged prompt is written, and a run that got past the context fetch has *)
(* ended Failed with the double-quote message.                             *)
C3_QuoteRejected ==
    SelectedTextHasQuote =>
        /\ ~Started("copilot review")
        /\ MergedPromptPath \notin files
        /\ ~Reached("PromptReady")
        /\ Reached("ContextFetched") /\ pc # "prompt" =>
               /\ results = <<QuoteFailure>>
               /\ pc = "done"
               /\ \A p \in FetchScripts : Started(p)

\* A quote in the prompt file, used because no inline prompt is given.
C3_Witness ==
    /\ ~InlinePromptSet
    /\ HasQuote(host.promptFileContent)
    /\ results = <<Failed(QuoteInFile)>>

-----------------------------------------------------------------------------
(* The timeout the task is configured with, in minutes. *)
ConfiguredMinutes ==
    CASE inputs.timeout = "" -> 15
      [] inputs.timeout = "0" -> 0
      [] inputs.timeout = "1" -> 1
      [] inputs.timeout = "2" -> 2

TimeoutFailure ==
    Failed(<<"Task failed: ", "Copilot review timed out after ",
             ToString(ConfiguredMinutes), " minutes">>)

(* C4: when the timer of the review fires - the configured minutes have    *)
(* passed and the subprocess has not closed - the subprocess has been sent *)
(* SIGTERM and the run has ended Failed with 'timed out after N minutes';  *)
(* no other outcome of the review step (non-zero exit, spawn error)        *)
(* produces that result.                                                   *)
C4_Timeout ==
    /\ review.timer = "fired" =>
           /\ review.signals = <<"SIGTERM">>
           /\ review.elapsed >= ConfiguredMinutes
           /\ results = <<TimeoutFailure>>
           /\ pc = "done"
    /\ results = <<TimeoutFailure>> => review.timer = "fired"
    /\ review.timer # "fired" => review.signals = <<>>

\* The default timeout of 15 minutes expires on a running review.
C4_Witness ==
    /\ inputs.timeout = ""
    /\ review.timer = "fired"
    /\ review.proc = "running"
    /\ review.elapsed = 15
    /\ results = <<TimeoutFailure>>

-----------------------------------------------------------------------------
(* The status the host API gave to a request of this run. *)
StatusOf(call) ==
    IF call.script = "PR" THEN host.fetchPR.api[call.request]
    ELSE host.fetchChanges.api[call.request]

NotFoundSeen == \E i \in 1..Len(apiCalls) : StatusOf(apiCalls[i]) = 404

\* What run() reports when a context-fetch script fails on an HTTP 401.
OutcomeOf401 == TaskFailed(ScriptExit("1"))

(* C5 as stated: a finished run in which a request of the context-fetch    *)
(* step returned HTTP 404 has ended Failed, with a result that differs     *)
(* from the one a 401 produces.                                            *)
C5_NotFoundFails ==
    pc = "done" /\ NotFoundSeen =>
        /\ EndedFailed
        /\ results[1] # OutcomeOf401

-----------------------------------------------------------------------------
\* text occurs in whole as a contiguous part of within
Contains(within, text) ==
    \E i \in 1..(Len(within) - Len(text) + 1) :
        SubSeq(within, i, i + Len(text) - 1) = text

(* C6 as stated: with both an inline prompt and a prompt file given, a     *)
(* run that starts the review never read the prompt file and reviews with  *)
(* a merged prompt that contains the inline text.                          *)
C6_InlineWins ==
    InlinePromptSet /\ inputs.promptFile # "" /\ Started("copilot review") =>
        /\ inputs.promptFile \notin review.filesRead
        /\ review.command.promptFrom = MergedPromptPath
        /\ Contains(review.mergedPrompt, inputs.prompt)

-----------------------------------------------------------------------------
(* C7: with no inline prompt and a prompt-file path that is unset, missing *)
(* or not a regular file, prompt assembly never fails, writes no merged    *)
(* prompt and reads no template, and the review is started on the bundled  *)
(* scripts/prompt.txt.                                                     *)
C7_DefaultPrompt ==
    ~InlinePromptSet /\ inputs.promptFile \in {"", "missing.txt", "workdir"} =>
        /\ MergedPromptPath \notin files
        /\ review.filesRead = {}
        /\ review.mergedPrompt = <<>>
        /\ Reached("ContextFetched") /\ pc # "prompt" =>
               /\ Reached("PromptReady")
               /\ review.promptFilePath = "scripts/prompt.txt"
        /\ Started("copilot review") =>
               review.command.promptFrom = "scripts/prompt.txt"

\* The promptFile input names a directory (the working directory, as an
\* empty filePath input does) and the review ran on the bundled prompt.
C7_Witness ==
    /\ ~InlinePromptSet
    /\ inputs.promptFile = "workdir"
    /\ Started("copilot review")
    /\ review.command.promptFrom = "scripts/prompt.txt"

-----------------------------------------------------------------------------
MaxId(ids) ==
    CHOOSE m \in {ids[i] : i \in 1..Len(ids)} :
        \A i \in 1..Len(ids) : ids[i] <= m

ChangesRequests == {i \in 1..Len(apiCalls) : apiCalls[i].request = "changes"}

ChangesScriptGotIterations ==
    /\ Started("Get-AzureDevOpsPRChanges.ps1")
    /\ host.fetchChanges.spawn = "ok"
    /\ host.fetchChanges.api["pullrequest"] = 200
    /\ host.fetchChanges.api["iterations"] = 200
    /\ host.iterations # <<>>

(* C8: when the changes script received a non-empty list of iterations, in *)
(* whatever order, it makes exactly one iteration-changes request, and     *)
(* makes it for the greatest iteration id of the list.                     *)
C8_LatestIteration ==
    /\ \A i \in ChangesRequests :
           /\ host.iterations # <<>>
           /\ apiCalls[i].iteration = MaxId(host.iterations)
    /\ ChangesScriptGotIterations => Cardinality(ChangesRequests) = 1

\* Iterations 1, 3, 2: the changes of iteration 3 are requested.
C8_Witness ==
    /\ host.iterations = <<1, 3, 2>>
    /\ \E i \in ChangesRequests : apiCalls[i].iteration = 3

-----------------------------------------------------------------------------
IsPrefix(s, t) == Len(s) <= Len(t) /\ s = SubSeq(t, 1, Len(s))

StatedOrder ==
    <<"Preflight", "InputsResolved", "AuthorGate", "ToolReady", "ContextFetched",
      "PromptReady", "ReviewRan">>

ActualOrder ==
    <<"Preflight", "AuthorGate", "InputsResolved", "ToolReady", "ContextFetched",
      "PromptReady", "ReviewRan">>

(* C9 as stated: the stages of a run complete in the order Preflight,      *)
(* InputsResolved, AuthorGate, ToolReady, ContextFetched, PromptReady,     *)
(* ReviewRan, the author gate being evaluated after the inputs are         *)
(* resolved.                                                               *)
C9_Original ==
    /\ IsPrefix(steps, StatedOrder)
    /\ Skipped => resolved.ok

(* C9, amended: the stages complete in the order Preflight, AuthorGate,    *)
(* InputsResolved, ToolReady, ContextFetched, PromptReady, ReviewRan - the *)
(* author gate is evaluated before the inputs are resolved and its skip    *)
(* ends the run Succeeded with only Preflight completed; the run ends      *)
(* Succeeded 'completed' only with every stage completed; and once a       *)
(* result is set no further stage completes, no process is started, no     *)
(* request is made and no file is written.                                 *)
C9_StateMachine ==
    /\ [](/\ IsPrefix(steps, ActualOrder)
          /\ Skipped => steps = <<"Preflight">> /\ ~resolved.ok
          /\ Reached("InputsResolved") <=> resolved.ok
          /\ results = <<Succeeded(Completed)>> => steps = ActualOrder
          /\ EndedFailed => ~Reached("ReviewRan")
          /\ Len(results) <= 1)
    /\ [][results # <<>> =>
            UNCHANGED <<results, steps, spawned, apiCalls, files>>]_vars

\* The run completed every stage and succeeded.
C9_Witness ==
    /\ steps = ActualOrder
    /\ results = <<Succeeded(Completed)>>
    /\ inputs.authors # <<>>

-----------------------------------------------------------------------------
(* C10 as stated: whenever the review subprocess has been started, both    *)
(* context files have been written by the context-fetch scripts of this    *)
(* run.                                                                    *)
C10_ContextWritten ==
    Started("copilot review") =>
        {"PR_Details.txt", "Iteration_Details.txt"} \subseteq files

-----------------------------------------------------------------------------
\* Every value of the configuration is resolved and non-empty, and the
\* environment of the subprocesses carries it.
ConfigResolved ==
    /\ resolved.ok
    /\ resolved.githubPat # ""
    /\ resolved.azureDevOpsToken # ""
    /\ resolved.azureDevOpsAuthType \in {"Basic", "Bearer"}
    /\ resolved.organization # ""
    /\ resolved.project # ""
    /\ resolved.repository # ""
    /\ resolved.pullRequestId # ""
    /\ procEnv = ExportedEnv(resolved)

(* C11: as soon as a network-touching subprocess (Copilot install,         *)
(* context-fetch script, review) has been started or a host API request    *)
(* made, the GitHub token, the Azure DevOps token and auth type, the       *)
(* organization, project, repository and pull-request id are resolved to   *)
(* non-empty values; and once resolved, the configuration never changes.   *)
C11_ResolvedBeforeNetwork ==
    /\ [](~NoNetworkYet => ConfigResolved)
    /\ [][resolved.ok => UNCHANGED <<resolved, procEnv>>]_vars

\* The first context-fetch script runs on a configuration resolved through
\* the fallbacks: organization from the collection URI, the system token,
\* the pull-request id of the build.
C11_Witness ==
    /\ Started("Get-AzureDevOpsPR.ps1")
    /\ resolved.ok
    /\ inputs.organization = "" /\ resolved.organization = "org2"
    /\ resolved.azureDevOpsAuthType = "Bearer"
    /\ inputs.pullRequestId = "" /\ resolved.pullRequestId = "8"

-----------------------------------------------------------------------------
\* The three kinds of result a run can end with.
IsResultKind(r) ==
    \/ r = Succeeded(Completed)
    \/ r = Succeeded(SkippedMessage)
    \/ r.result = "Failed" /\ r.message # <<>>

(* C12: a run sets at most one result, has set exactly one when it has     *)
(* terminated and none before; the result is Succeeded 'completed',        *)
(* Succeeded with the skip message or Failed with a message; and once the  *)
(* result is set run() does nothing more: no second result, no later       *)
(* stage, no process started, no request, no file, no configuration        *)
(* change.                                                                 *)
C12_OneResult ==
    /\ [](/\ Len(results) <= 1
          /\ pc = "done" <=> Len(results) = 1
          /\ \A i \in 1..Len(results) : IsResultKind(results[i]))
    /\ [][results # <<>> =>
            UNCHANGED <<results, pc, steps, spawned, apiCalls, files, resolved,
                        procEnv>>]_vars

\* The timer fired and failed the run, and the subprocess closed afterwards:
\* the close event found the promise settled and the single result stands.
C12_Witness ==
    /\ review.timer = "fired"
    /\ review.proc = "closed"
    /\ Len(results) = 1
    /\ pc = "done"

-----------------------------------------------------------------------------
(* C13: the resolved timeout is the configured number of minutes, 15 when  *)
(* the timeout input is absent or empty (and 0, not 15, when it is "0");   *)
(* the timer of the review subprocess is set to exactly that number of     *)
(* minutes times 60 times 1000 milliseconds, and does not stay armed past  *)
(* it.                                                                     *)
C13_TimeoutMinutes ==
    /\ resolved.ok => resolved.timeoutMinutes = ConfiguredMinutes
    /\ resolved.ok /\ inputs.timeout = "" => resolved.timeoutMinutes = 15
    /\ review.timer # "none" => review.timeoutMs = ConfiguredMinutes * 60 * 1000
    /\ review.timer = "armed" => review.elapsed <= ConfiguredMinutes

\* No timeout input: the timer is armed with 900000 ms.
C13_Witness ==
    /\ inputs.timeout = ""
    /\ review.timer = "armed"
    /\ review.timeoutMs = 900000
    /\ review.proc = "running"

-----------------------------------------------------------------------------
\* The POST requests of one run of the comment-posting script.
Posts(run) == {k \in 1..Len(run.requests) : run.requests[k].method = "Post"}

\* The thread status enum, by the name asked for; Active when none is.
StatusNumber(name) ==
    CASE name \in {"", "Active"} -> 1
      [] name = "Fixed" -> 2
      [] name = "WontFix" -> 3
      [] name = "Closed" -> 4
      [] name = "Pending" -> 5

(* C14: a run of the comment-posting script posts at most once, and once   *)
(* when it exits 0; given a ThreadId greater than 0 what it posts is a     *)
(* reply to that thread, carrying no status; otherwise it is a new thread, *)
(* created with the number of the status asked for - Active=1, Fixed=2,    *)
(* WontFix=3, Closed=4, Pending=5, and 1 when no status is given.          *)
C14_ReplyOrNewThread ==
    \A i \in 1..Len(comments) :
        LET call == comments[i].call
            run == comments[i].run
        IN  /\ Cardinality(Posts(run)) <= 1
            /\ run.code = "0" => Cardinality(Posts(run)) = 1
            /\ \A k \in Posts(run) :
                   IF call.ThreadId > 0
                   THEN /\ run.requests[k].resource = "comments"
                        /\ run.requests[k].thread = call.ThreadId
                        /\ run.requests[k].status = 0
                   ELSE /\ run.requests[k].resource = "threads"
                        /\ run.requests[k].thread = 0
                        /\ run.requests[k].status = StatusNumber(call.Status)

\* A run with a negative ThreadId and -Status WontFix opened a thread with
\* status 3.
C14_Witness ==
    \E i \in 1..Len(comments) :
        /\ comments[i].call = [ThreadId |-> -1, Status |-> "WontFix"]
        /\ \E k \in Posts(comments[i].run) :
               /\ comments[i].run.requests[k].resource = "threads"
               /\ comments[i].run.requests[k].status = 3
               /\ comments[i].run.requests[k].response = 200

-----------------------------------------------------------------------------
\* How many times run() has started the process called name.
StartCount(name) == Cardinality({i \in 1..Len(spawned) : spawned[i] = name})

(* C15: the install of the review CLI is started at most once, and once    *)
(* the probe has been acted on it has been started exactly when the probe  *)
(* did not exit 0; an install that exits non-zero or fails to spawn ends   *)
(* the run Failed with no context-fetch script, no review and no host API  *)
(* request; a successful install, like a successful probe, makes the tool  *)
(* ready.                                                                  *)
C15_Provisioning ==
    /\ StartCount("install copilot") <= 1
    /\ StartCount("copilot --version") <= 1
    /\ Started("install copilot") => Started("copilot --version")
    /\ Started("copilot --version") /\ pc # "install" =>
           (Started("install copilot") <=> host.copilotStatus # 0)
    /\ Started("install copilot") /\ host.install # "exit0" =>
           /\ pc = "done"
           /\ EndedFailed
           /\ ~Reached("ToolReady")
           /\ \A p \in FetchScripts \cup {"copilot review"} : ~Started(p)
           /\ apiCalls = <<>>
    /\ Started("install copilot") /\ host.install = "exit0" => Reached("ToolReady")
    /\ Started("copilot --version") /\ host.copilotStatus = 0 => Reached("ToolReady")

\* The probe failed and the install could not be spawned.
C15_Witness ==
    /\ host.copilotStatus # 0
    /\ host.install = "error"
    /\ Started("install copilot")
    /\ results = <<TaskFailed(InstallError)>>

-----------------------------------------------------------------------------
\* The preflight conditions, as the agent gives them.
PreflightFails ==
    \/ host.pwshStatus # 0
    \/ ~host.win32 /\ host.nodeMajor < 22

PreflightFailure ==
    IF host.pwshStatus # 0 THEN Failed(PwshMissing) ELSE Failed(NodeTooOld)

(* C16: the shell probe runs once; when it does not exit 0, or when off    *)
(* Windows the runtime major version is below 22, the run has ended Failed *)
(* with the message of that check as soon as preflight is over, with no    *)
(* input or variable read, no stage completed and nothing else started;    *)
(* otherwise - in particular on Windows whatever the runtime version -     *)
(* preflight passes and no preflight failure is ever reported.             *)
C16_Preflight ==
    /\ StartCount("pwsh --version") <= 1
    /\ pc = "preflight" => reads = {} /\ results = <<>>
    /\ pc # "preflight" /\ PreflightFails =>
           /\ pc = "done"
           /\ results = <<PreflightFailure>>
           /\ reads = {}
           /\ steps = <<>>
           /\ spawned = <<"pwsh --version">>
           /\ resolved = Unresolved
           /\ apiCalls = <<>>
           /\ files = {}
    /\ pc # "preflight" /\ ~PreflightFails =>
           /\ Reached("Preflight")
           /\ \A i \in 1..Len(results) :
                  results[i] \notin {Failed(PwshMissing), Failed(NodeTooOld)}

\* Off Windows with runtime 21: the run failed on the version check.
C16_Witness ==
    /\ host.pwshStatus = 0
    /\ ~host.win32
    /\ host.nodeMajor = 21
    /\ results = <<Failed(NodeTooOld)>>
    /\ reads = {}

-----------------------------------------------------------------------------
\* A request of the context-fetch step got an HTTP failure, of any status.
HttpFailureSeen == \E i \in 1..Len(apiCalls) : StatusOf(apiCalls[i]) # 200

(* C17 as stated: once a host API request of the context-fetch step has    *)
(* failed, whatever its status code, the run has ended Failed and the      *)
(* review subprocess is never started.                                     *)
C17_HttpFailureAborts ==
    HttpFailureSeen =>
        /\ pc = "done"
        /\ EndedFailed
        /\ ~Started("copilot review")

-----------------------------------------------------------------------------
\* What the ambient values of the build yield for each identifier.
AmbientOrganization ==
    CASE variables.CollectionUri = "https://dev.azure.com/org1/" -> "org1"
      [] variables.CollectionUri = "https://org2.visualstudio.com/" -> "org2"
      [] OTHER -> ""
AmbientProject == variables.TeamProject
AmbientRepository == variables.RepositoryName

\* The explicit input when given, else the ambient value.
InputOrAmbient(input, ambient) == IF input # "" THEN input ELSE ambient

(* C18 as stated: organization, project and repository each resolve to the *)
(* explicit input when it is given and else to the ambient value of the    *)
(* build (System.CollectionUri, System.TeamProject,                        *)
(* Build.Repository.Name), and the run fails on an identifier only when    *)
(* neither yields a value.                                                 *)
C18_AmbientFallback ==
    /\ resolved.ok =>
           /\ resolved.organization
                = InputOrAmbient(inputs.organization, AmbientOrganization)
           /\ resolved.project = InputOrAmbient(inputs.project, AmbientProject)
           /\ resolved.repository
                = InputOrAmbient(inputs.repository, AmbientRepository)
    /\ results = <<Failed(OrganizationRequired)>> =>
           InputOrAmbient(inputs.organization, AmbientOrganization) = ""
    /\ results = <<Failed(ProjectRequired)>> =>
           InputOrAmbient(inputs.project, AmbientProject) = ""
    /\ results = <<Failed(RepositoryRequired)>> =>
           InputOrAmbient(inputs.repository, AmbientRepository) = ""

-----------------------------------------------------------------------------
\* The required values that neither an input nor a fallback yields, in the
\* order they are checked, each with the failure reported for it.
MissingChecks ==
    <<[missing |-> inputs.githubPat = "",
       failure |-> TaskFailed(GithubPatRequired)],
      [missing |-> CredentialMissing,
       failure |-> IF inputs.useSystemAccessToken
                   THEN Failed(SystemTokenMissing) ELSE Failed(AuthRequired)],
      [missing |-> InputOrAmbient(inputs.organization, AmbientOrganization) = "",
       failure |-> Failed(OrganizationRequired)],
      [missing |-> InputOrAmbient(inputs.project, AmbientProject) = "",
       failure |-> Failed(ProjectRequired)],
      [missing |-> InputOrAmbient(inputs.repository, AmbientRepository) = "",
       failure |-> Failed(RepositoryRequired)],
      [missing |-> PullRequestIdMissing,
       failure |-> Failed(PullRequestIdRequired)]>>

MissingCount ==
    Cardinality({k \in 1..Len(MissingChecks) : MissingChecks[k].missing})

FirstMissing ==
    CHOOSE k \in 1..Len(MissingChecks) :
        /\ MissingChecks[k].missing
        /\ \A j \in 1..(k - 1) : ~MissingChecks[j].missing

(* C19 as stated, for a run that reaches input resolution: with several    *)
(* required values missing at once, the run reports exactly one failure,   *)
(* the one of the first missing value in the order GitHub token, Azure     *)
(* DevOps credential, organization, project, repository, pull-request id.  *)
C19_FirstMissingWins ==
    MissingCount >= 2 /\ Reached("AuthorGate") /\ pc # "inputs" =>
        results = <<MissingChecks[FirstMissing].failure>>

-----------------------------------------------------------------------------
\* The result of a run that failed on an exception with these message parts.
FailedWith(text, code) == Failed(<<"Task failed: ", text, code>>)

ChangesScriptExitsOne ==
    /\ Started("Get-AzureDevOpsPRChanges.ps1")
    /\ host.fetchChanges.spawn = "ok"
    /\ host.fetchChanges.api["pullrequest"] # 200

(* C20: when the review subprocess was spawned, has closed with a non-zero *)
(* exit code and the timer had not fired, the run has ended Failed with    *)
(* 'Copilot CLI exited with code: <that code>' (a subprocess that could    *)
(* not be spawned reports the spawn error instead, and its close event     *)
(* changes nothing); when the install process closed with a                *)
(* non-zero code, with 'Failed to install GitHub Copilot CLI. Exit code:   *)
(* <that code>'; when a context-fetch script exited non-zero, with         *)
(* 'PowerShell script failed with exit code: <that code>'.                 *)
C20_ExitCodeSurfaced ==
    /\ review.proc = "closed" /\ ~review.errored
       /\ review.code # "0" /\ review.timer # "fired" =>
           /\ pc = "done"
           /\ results = <<FailedWith("Copilot CLI exited with code: ", review.code)>>
    /\ \A c \in {"1", "2"} :
           Started("install copilot") /\ host.install = "exit" \o c =>
               /\ pc = "done"
               /\ results = <<FailedWith("Failed to install GitHub Copilot CLI. Exit code: ", c)>>
    /\ ChangesScriptExitsOne =>
           /\ pc = "done"
           /\ results = <<FailedWith("PowerShell script failed with exit code: ", "1")>>

\* The review subprocess closed with exit code 2 while the timer was armed.
C20_Witness ==
    /\ review.proc = "closed"
    /\ review.code = "2"
    /\ review.timer = "cleared"
    /\ results = <<FailedWith("Copilot CLI exited with code: ", "2")>>

-----------------------------------------------------------------------------
(* C21: the step in which the timer fires sends SIGTERM to the subprocess, *)
(* which is still running, and fails the run with the timeout message in   *)
(* that same step, without a close event; afterwards no further signal is  *)
(* sent and the result stands, whether or not the subprocess ever closes:  *)
(* exactly one SIGTERM and no other signal is sent.                        *)
C21_TimeoutNoWait ==
    /\ [](/\ review.timer = "fired" =>
                /\ review.signals = <<"SIGTERM">>
                /\ results = <<TimeoutFailure>>
                /\ pc = "done"
          /\ review.timer # "fired" => review.signals = <<>>)
    /\ [][review.timer = "armed" /\ review'.timer = "fired" =>
             /\ review.proc = "running" /\ review'.proc = "running"
             /\ results = <<>> /\ results' = <<TimeoutFailure>>
             /\ review'.signals = <<"SIGTERM">>]_vars
    /\ [][review.timer = "fired" =>
             review'.signals = review.signals /\ results' = results]_vars

\* Timed out after 2 minutes: the run has failed while the subprocess is
\* still running.
C21_Witness ==
    /\ inputs.timeout = "2"
    /\ review.timer = "fired"
    /\ review.proc = "running"
    /\ review.signals = <<"SIGTERM">>
    /\ results = <<TimeoutFailure>>
    /\ pc = "done"

-----------------------------------------------------------------------------
\* The custom text of the run: the inline prompt, else the trimmed content
\* of the prompt file.
CustomText ==
    IF InlinePromptSet THEN inputs.prompt ELSE trim(host.promptFileContent)

(* C22 as stated: once a custom prompt text has passed validation, the     *)
(* merged prompt is the template with its placeholder replaced by that     *)
(* text, character for character, and the rest of the template unchanged.  *)
C22_MergeVerbatim ==
    (InlinePromptSet \/ PromptFileUsable) /\ Reached("PromptReady") =>
        review.mergedPrompt
          = <<"[instructions]">> \o CustomText \o <<"[output rules]">>

-----------------------------------------------------------------------------
\* The prompt file holds nothing but whitespace.
PromptFileBlank ==
    \A i \in 1..Len(host.promptFileContent) : host.promptFileContent[i] = " "

(* C23: the prompt file is read only when no inline prompt is given and    *)
(* the path names an existing regular file; when its content is empty      *)
(* after trimming whitespace, prompt assembly fails the run with 'Prompt   *)
(* file is empty', no merged prompt is written and the review subprocess   *)
(* is never started.                                                       *)
C23_EmptyPromptFile ==
    /\ inputs.promptFile \in review.filesRead =>
           ~InlinePromptSet /\ PromptFileUsable
    /\ ~InlinePromptSet /\ PromptFileUsable /\ PromptFileBlank =>
           /\ ~Started("copilot review")
           /\ ~Reached("PromptReady")
           /\ "_copilot_prompt.txt" \notin files
           /\ Reached("ContextFetched") /\ pc # "prompt" =>
                  /\ pc = "done"
                  /\ results = <<Failed(<<"Prompt file is empty: ", "prompt file">>)>>

\* A prompt file holding one space.
C23_Witness ==
    /\ ~InlinePromptSet
    /\ host.promptFileContent = <<" ">>
    /\ inputs.promptFile \in review.filesRead
    /\ results = <<Failed(<<"Prompt file is empty: ", "prompt file">>)>>

-----------------------------------------------------------------------------
\* A custom prompt text is selected: an inline prompt or a usable file.
CustomPromptGiven == InlinePromptSet \/ PromptFileUsable

-----------------------------------------------------------------------------
(* C25: the review step is settled exactly while its timer is not armed,   *)
(* and once settled neither its outcome nor the task result changes; when  *)
(* the close or error event came first the timer is cleared and stays      *)
(* cleared, no SIGTERM is ever sent and no timeout failure reported; when  *)
(* the timer fired first the timeout failure stands through any later      *)
(* close or error event.                                                   *)
C25_SettlesOnce ==
    /\ [](/\ review.promise \in {"resolved", "rejected"}
                <=> review.timer \in {"cleared", "fired"}
          /\ review.promise = "pending" <=> review.timer = "armed"
          /\ review.proc \in {"closed", "failed"} =>
                review.timer \in {"cleared", "fired"}
          /\ review.timer = "cleared" =>
                /\ review.signals = <<>>
                /\ Len(results) = 1 /\ results # <<TimeoutFailure>>
          /\ review.timer = "fired" => results = <<TimeoutFailure>>)
    /\ [][review.promise \in {"resolved", "rejected"} =>
             /\ review'.promise = review.promise
             /\ review'.timer = review.timer
             /\ results' = results]_vars

\* The timer fired first; the subprocess then closed with exit code 0 and
\* the timeout failure stands.
C25_Witness ==
    /\ review.timer = "fired"
    /\ review.proc = "closed"
    /\ review.code = "0"
    /\ results = <<TimeoutFailure>>

-----------------------------------------------------------------------------
(* C26: a run skipped by the author gate has read only the allow-list      *)
(* input and the requester email variable, has resolved no configuration   *)
(* and set none of the subprocess environment variables, has written no    *)
(* file, made no request and started no process but the preflight probe;   *)
(* and a run whose gate skips ends Succeeded-skipped whatever the rest of  *)
(* the configuration, missing required inputs and credentials included.    *)
C26_SkipHasNoEffects ==
    /\ Skipped =>
           /\ pc = "done"
           /\ reads = {"authors", "Build.RequestedForEmail"}
           /\ resolved = Unresolved
           /\ procEnv = <<>>
           /\ files = {}
           /\ spawned = <<"pwsh --version">>
           /\ scriptArgs = <<>>
           /\ apiCalls = <<>>
           /\ comments = <<>>
           /\ review = NoReview
    /\ GateSkips /\ Reached("Preflight") /\ pc = "done" => Skipped

\* Skipped although the GitHub token and the Azure DevOps credential are
\* missing.
C26_Witness ==
    /\ Skipped
    /\ inputs.githubPat = ""
    /\ CredentialMissing
    /\ reads = {"authors", "Build.RequestedForEmail"}

-----------------------------------------------------------------------------
\* The helper comment scripts, as copied to the working directory.
HelperScripts == {"Add-AzureDevOpsPRComment.ps1", "Add-CopilotComment.ps1"}

(* C27: the run has ended Succeeded 'Copilot code review completed.' only  *)
(* if the tool was found by the probe or installed with exit code 0, both  *)
(* context-fetch scripts were run and exited 0, the helper comment scripts *)
(* were copied to the working directory, and the review subprocess closed  *)
(* with exit code 0 with the timer cleared, never fired.                   *)
C27_SuccessOnlyIfAllRan ==
    results = <<Succeeded(<<"Copilot code review completed.">>)>> =>
        /\ \/ host.copilotStatus = 0 /\ ~Started("install copilot")
           \/ Started("install copilot") /\ host.install = "exit0"
        /\ \A p \in FetchScripts : StartCount(p) = 1
        /\ host.fetchPR.spawn = "ok"
        /\ host.fetchChanges.spawn = "ok"
        /\ ~ChangesScriptExitsOne
        /\ HelperScripts \subseteq files
        /\ StartCount("copilot review") = 1
        /\ review.proc = "closed"
        /\ review.code = "0"
        /\ ~review.errored
        /\ review.timer = "cleared"
        /\ review.signals = <<>>

\* Success after the tool had to be installed.
C27_Witness ==
    /\ results = <<Succeeded(<<"Copilot code review completed.">>)>>
    /\ Started("install copilot")
    /\ review.code = "0"

-----------------------------------------------------------------------------
\* The Azure DevOps token and auth type the task is configured to use.
SelectedToken ==
    IF inputs.useSystemAccessToken THEN variables.AccessToken
    ELSE inputs.azureDevOpsPat
SelectedAuthType == IF inputs.useSystemAccessToken THEN "Bearer" ELSE "Basic"

(* C28: with 'use system access token' enabled the system token is used    *)
(* with auth type Bearer, a supplied PAT being ignored, and a missing      *)
(* system token fails the run even when a PAT is supplied; with it         *)
(* disabled the PAT is used with auth type Basic, and a missing PAT fails  *)
(* the run; the selected pair is what is exported to the environment and   *)
(* passed to every context-fetch script.                                   *)
C28_CredentialSelection ==
    /\ resolved.ok =>
           /\ SelectedToken # ""
           /\ resolved.azureDevOpsToken = SelectedToken
           /\ resolved.azureDevOpsAuthType = SelectedAuthType
           /\ procEnv.AZUREDEVOPS_TOKEN = SelectedToken
           /\ procEnv.AZUREDEVOPS_AUTH_TYPE = SelectedAuthType
    /\ \A i \in 1..Len(scriptArgs) :
           /\ scriptArgs[i].Token = SelectedToken
           /\ scriptArgs[i].AuthType = SelectedAuthType
    /\ \A p \in FetchScripts :
           StartCount(p) = Cardinality({i \in 1..Len(scriptArgs) :
                                           scriptArgs[i].script = p})
    /\ inputs.githubPat # "" /\ SelectedToken = "" /\ Reached("AuthorGate")
       /\ pc # "inputs" =>
           /\ pc = "done"
           /\ resolved = Unresolved
           /\ results = <<IF inputs.useSystemAccessToken
                          THEN Failed(<<"System.AccessToken is not available.">>)
                          ELSE Failed(<<"Azure DevOps authentication is required.">>)>>

\* The system token is used although a PAT is supplied too, and both
\* context-fetch scripts were given it.
C28_Witness ==
    /\ inputs.useSystemAccessToken
    /\ inputs.azureDevOpsPat = "pat"
    /\ Len(scriptArgs) = 2
    /\ scriptArgs[2].Token = "sys"
    /\ scriptArgs[2].AuthType = "Bearer"
    /\ procEnv.AZUREDEVOPS_TOKEN = "sys"

-----------------------------------------------------------------------------
(* C29: when an author allow-list is configured and the requester email is *)
(* unavailable, the run is skipped as soon as the author filter has been   *)
(* evaluated, whatever the list, lists with empty entries included.        *)
C29_EmptyRequesterSkips ==
    /\ inputs.authors # <<>>
    /\ variables.RequestedForEmail = <<>>
    /\ GateEvaluated
    => Skipped

-----------------------------------------------------------------------------
\* The run of the comment script posted a comment: a POST answered with 200.
Posted(run) == \E k \in Posts(run) : run.requests[k].response = 200

\* Request k of the run is a lookup of that resource, answered with 200.
LookedUp(run, k, resource) ==
    /\ k \in 1..Len(run.requests)
    /\ run.requests[k].method = "Get"
    /\ run.requests[k].resource = resource
    /\ run.requests[k].response = 200

(* C30: every run of the comment script sends a POST only after a          *)
(* successful lookup of the pull request and, for a reply, of the thread;  *)
(* and a run that posted no comment has exited with a non-zero code.       *)
C30_CommentScriptExit ==
    \A i \in 1..Len(comments) :
        LET run == comments[i].run
        IN  /\ \A k \in Posts(run) :
                   /\ \E j \in 1..(k - 1) : LookedUp(run, j, "pullrequest")
                   /\ comments[i].call.ThreadId > 0 =>
                          \E j \in 1..(k - 1) : LookedUp(run, j, "thread")
            /\ ~Posted(run) => run.code # "0"

=============================================================================
